---- MODULE Spec2Model ----
(***************************************************************************)
(* A model of the multi-service TCP server of src/server.py: the           *)
(* newline-delimited JSON protocol (make_response, validate_request,       *)
(* handle_request, load_local_data), the per-connection session            *)
(* client_thread with the shared counter active_clients and its lock, and  *)
(* the accept loop of main.                                                 *)
(*                                                                         *)
(* Strings are sequences of chunks: text that comes from the peer or from  *)
(* the data file is held character by character, so that strip() and       *)
(* upper() are computed; a literal of the program is one chunk.            *)
(***************************************************************************)
EXTENDS Integers, Sequences, FiniteSets, TLC

(***************************************************************************)
(* Bounds of the model.                                                    *)
(***************************************************************************)
MaxConns == 2
MaxRequests == 1
MaxLines == 3

(***************************************************************************)
(* Python strings: str.strip() and str.upper().                            *)
(***************************************************************************)
Whitespace == {" ", "\t"}

Lower == <<"a","b","c","d","e","f","g","h","i","j","k","l","m",
           "n","o","p","q","r","s","t","u","v","w","x","y","z">>

Capital == <<"A","B","C","D","E","F","G","H","I","J","K","L","M",
             "N","O","P","Q","R","S","T","U","V","W","X","Y","Z">>

\* U+212A KELVIN SIGN, a letter that str.upper() leaves as it is and whose
\* case-folded form is "k".
KelvinSign == "U+212A"

\* The capital of each small letter.
UpperOf ==
    [ch \in {Lower[i] : i \in 1..Len(Lower)} |->
        Capital[CHOOSE i \in 1..Len(Lower) : Lower[i] = ch]]

UpperChar(ch) == IF ch \in DOMAIN UpperOf THEN UpperOf[ch] ELSE ch

Upper(s) == [i \in 1..Len(s) |-> UpperChar(s[i])]

RECURSIVE LStrip(_)
LStrip(s) ==
    IF s # <<>> /\ Head(s) \in Whitespace THEN LStrip(Tail(s)) ELSE s

RECURSIVE RStrip(_)
RStrip(s) ==
    IF s # <<>> /\ s[Len(s)] \in Whitespace
    THEN RStrip(SubSeq(s, 1, Len(s) - 1))
    ELSE s

Strip(s) == RStrip(LStrip(s))

\* Python's `a in b` for two strings.
IsSubstring(a, b) ==
    \E i \in 0..(Len(b) - Len(a)) : SubSeq(b, i + 1, i + Len(a)) = a

(***************************************************************************)
(* JSON values as json.loads returns them.  t is the Python type: "str",   *)
(* "num", "bool", "null" (None), "arr" (list), "obj" (dict).  s is the     *)
(* text of a str, n the value of a num, f the mapping of a dict (from key  *)
(* strings to values), e the elements of a list.                           *)
(***************************************************************************)
JStr(s) == [t |-> "str", s |-> s, n |-> 0, f |-> <<>>, e |-> <<>>]
JNum(n) == [t |-> "num", s |-> <<>>, n |-> n, f |-> <<>>, e |-> <<>>]
JBool == [t |-> "bool", s |-> <<>>, n |-> 1, f |-> <<>>, e |-> <<>>]
None == [t |-> "null", s |-> <<>>, n |-> 0, f |-> <<>>, e |-> <<>>]
JArr(e) == [t |-> "arr", s |-> <<>>, n |-> 0, f |-> <<>>, e |-> e]
JObj(f) == [t |-> "obj", s |-> <<>>, n |-> 0, f |-> f, e |-> <<>>]

EmptyDict == JObj(<<>>)

\* A dict literal with one, two and four entries.
Dict1(k1, v1) == JObj([k \in {k1} |-> v1])
Dict2(k1, v1, k2, v2) == JObj([k \in {k1, k2} |-> IF k = k1 THEN v1 ELSE v2])
Dict4(k1, v1, k2, v2, k3, v3, k4, v4) ==
    JObj([k \in {k1, k2, k3, k4} |->
            IF k = k1 THEN v1 ELSE IF k = k2 THEN v2
            ELSE IF k = k3 THEN v3 ELSE v4])

Has(obj, k) == k \in DOMAIN obj.f

IsStr(v) == v.t = "str"

IsDict(v) == v.t = "obj"

\* Python truthiness of `data` in `data or {}`.
Falsy(v) == v.t = "null" \/ (v.t = "obj" /\ DOMAIN v.f = {})

(***************************************************************************)
(* Program constants and external collaborators.                           *)
(***************************************************************************)
SERVER_NAME == <<"Tinashe-NetServer">>

now_iso == <<"<server_time>">>

platform_platform == <<"<platform>">>

SUPPORTED_TYPES ==
    JArr(<<JStr(<<"ECHO">>), JStr(<<"SYSTEM_INFO">>),
           JStr(<<"FILE_QUERY">>), JStr(<<"HELP">>)>>)

T_ECHO == <<"E","C","H","O">>
T_SYSTEM_INFO == <<"S","Y","S","T","E","M","_","I","N","F","O">>
T_FILE_QUERY == <<"F","I","L","E","_","Q","U","E","R","Y">>
T_HELP == <<"H","E","L","P">>

(***************************************************************************)
(* make_response.                                                          *)
(***************************************************************************)
\* make_response with `data` in place of `data or {}`.
make_response_NoDefault(request_id, status, data, error) ==
    [request_id |-> request_id, status |-> status, data |-> data, error |-> error]

make_response(request_id, status, data, error) ==
    [request_id |-> request_id,
     status |-> status,
     data |-> IF Falsy(data) THEN EmptyDict ELSE data,
     error |-> error]

ErrorObj(code, message) ==
    Dict2(<<"code">>, JStr(<<code>>), <<"message">>, JStr(message))

(***************************************************************************)
(* load_local_data.  The data file is missing, unreadable (open or read    *)
(* fails with OSError), undecodable (not UTF-8 text), malformed (not       *)
(* JSON) or holds the JSON value val.  The result is the value returned,   *)
(* or the exception that leaves the function.                              *)
(***************************************************************************)
Returned(v) == [raised |-> FALSE, exc |-> "", val |-> v]

Raised(exc) == [raised |-> TRUE, exc |-> exc, val |-> None]

load_local_data(file) ==
    CASE file.st = "missing" -> Returned(EmptyDict)
      [] file.st = "unreadable" -> Returned(EmptyDict)
      [] file.st = "malformed" -> Returned(EmptyDict)
      [] file.st = "undecodable" -> Raised("UnicodeDecodeError")
      [] OTHER -> Returned(file.val)

(***************************************************************************)
(* validate_request.                                                       *)
(***************************************************************************)
BlankOrNotStr(obj, k) ==
    \/ ~Has(obj, k)
    \/ ~IsStr(obj.f[k])
    \/ Strip(obj.f[k].s) = <<>>

validate_request(obj) ==
    IF ~IsDict(obj)
    THEN [valid |-> FALSE, msg |-> <<"Request must be a JSON object">>]
    ELSE IF BlankOrNotStr(obj, <<"type">>)
    THEN [valid |-> FALSE, msg |-> <<"Missing or invalid 'type' field">>]
    ELSE IF BlankOrNotStr(obj, <<"request_id">>)
    THEN [valid |-> FALSE, msg |-> <<"Missing or invalid 'request_id' field">>]
    ELSE IF ~Has(obj, <<"payload">>) \/ ~IsDict(obj.f[<<"payload">>])
    THEN [valid |-> FALSE,
          msg |-> <<"Missing or invalid 'payload' field (must be an object)">>]
    ELSE [valid |-> TRUE, msg |-> <<>>]

(***************************************************************************)
(* handle_request.  count is the value of active_clients read under the    *)
(* lock, file the state of the data file when load_local_data reads it.    *)
(* The result is the response returned, or the exception that leaves the   *)
(* function.                                                               *)
(***************************************************************************)
NoResponse == [request_id |-> <<>>, status |-> "", data |-> None, error |-> None]

Done(resp) == [raised |-> FALSE, exc |-> "", resp |-> resp]

Threw(exc) == [raised |-> TRUE, exc |-> exc, resp |-> NoResponse]

\* Line 77 without its upper(): the type is matched as written.
ReqType_NoUpper(req) == Strip(req.f[<<"type">>].s)

\* Line 77.
ReqType(req) == Upper(Strip(req.f[<<"type">>].s))

\* The ECHO branch echoing payload["message"].strip().
HandleEcho_Stripped(request_id, payload) ==
    IF ~Has(payload, <<"message">>) \/ ~IsStr(payload.f[<<"message">>])
    THEN Done([request_id |-> request_id, status |-> "ERROR", data |-> EmptyDict,
               error |-> ErrorObj("BAD_REQUEST",
                                  <<"ECHO requires payload.message (string)">>)])
    ELSE Done([request_id |-> request_id, status |-> "OK",
               data |-> Dict1(<<"echo">>, JStr(Strip(payload.f[<<"message">>].s))),
               error |-> None])

\* Lines 81-88.
HandleEcho(request_id, payload) ==
    IF ~Has(payload, <<"message">>) \/ ~IsStr(payload.f[<<"message">>])
    THEN Done(make_response(request_id, "ERROR", None,
              ErrorObj("BAD_REQUEST",
                       <<"ECHO requires payload.message (string)">>)))
    ELSE Done(make_response(request_id, "OK",
              Dict1(<<"echo">>, payload.f[<<"message">>]), None))

\* The SYSTEM_INFO branch reporting the other clients only.
HandleSystemInfo_Others(request_id, count) ==
    Done([request_id |-> request_id, status |-> "OK",
          data |-> Dict4(<<"server_name">>, JStr(SERVER_NAME),
                         <<"server_time">>, JStr(now_iso),
                         <<"active_clients">>, JNum(count - 1),
                         <<"platform">>, JStr(platform_platform)),
          error |-> None])

\* Lines 90-102.
HandleSystemInfo(request_id, count) ==
    Done(make_response(request_id, "OK",
         Dict4(<<"server_name">>, JStr(SERVER_NAME),
               <<"server_time">>, JStr(now_iso),
               <<"active_clients">>, JNum(count),
               <<"platform">>, JStr(platform_platform)),
         None))

\* `key not in data` (line 115): the exception it raises, if any.
NotInRaises(data) == data.t \in {"num", "bool", "null"}

\* `key not in data` (line 115) where it does not raise.
NotIn(key, data) ==
    CASE data.t = "obj" -> key \notin DOMAIN data.f
      [] data.t = "arr" ->
            ~\E i \in 1..Len(data.e) : IsStr(data.e[i]) /\ data.e[i].s = key
      [] data.t = "str" -> ~IsSubstring(key, data.s)
      [] OTHER -> TRUE

\* The FILE_QUERY branch looking up payload["key"] as given, not stripped.
HandleFileQuery_Unstripped(request_id, payload, file) ==
    IF BlankOrNotStr(payload, <<"key">>)
    THEN Done(make_response(request_id, "ERROR", None,
              ErrorObj("BAD_REQUEST",
                       <<"FILE_QUERY requires payload.key (string)">>)))
    ELSE LET loaded == load_local_data(file)
             data == loaded.val
             key == payload.f[<<"key">>].s
         IN  IF loaded.raised THEN Threw(loaded.exc)
             ELSE IF NotInRaises(data) THEN Threw("TypeError")
             ELSE IF NotIn(key, data)
             THEN Done(make_response(request_id, "ERROR", None,
                       ErrorObj("NOT_FOUND",
                                <<"Key '">> \o key \o <<"' not found">>)))
             ELSE IF data.t # "obj" THEN Threw("TypeError")
             ELSE Done(make_response(request_id, "OK",
                       Dict2(<<"key">>, JStr(key), <<"value">>, data.f[key]),
                       None))

\* Lines 104-126.
HandleFileQuery(request_id, payload, file) ==
    IF BlankOrNotStr(payload, <<"key">>)
    THEN Done(make_response(request_id, "ERROR", None,
              ErrorObj("BAD_REQUEST",
                       <<"FILE_QUERY requires payload.key (string)">>)))
    ELSE LET loaded == load_local_data(file)
             data == loaded.val
             key == Strip(payload.f[<<"key">>].s)
         IN  IF loaded.raised THEN Threw(loaded.exc)
             ELSE IF NotInRaises(data) THEN Threw("TypeError")
             ELSE IF NotIn(key, data)
             THEN Done(make_response(request_id, "ERROR", None,
                       ErrorObj("NOT_FOUND",
                                <<"Key '">> \o key \o <<"' not found">>)))
             ELSE IF data.t # "obj" THEN Threw("TypeError")
             ELSE Done(make_response(request_id, "OK",
                       Dict2(<<"key">>, JStr(key), <<"value">>, data.f[key]),
                       None))

\* Lines 128-133.
HandleHelp(request_id) ==
    Done(make_response(request_id, "OK",
         Dict1(<<"supported_types">>, SUPPORTED_TYPES), None))

\* Lines 135-139.
HandleUnknown(request_id, req_type) ==
    Done(make_response(request_id, "ERROR", None,
         ErrorObj("UNKNOWN_TYPE", <<"Unknown request type: ">> \o req_type)))

\* handle_request naming req["type"] as received in its UNKNOWN_TYPE message.
handle_request_RawType(req, count, file) ==
    LET req_type == ReqType(req)
        request_id == req.f[<<"request_id">>].s
        payload == req.f[<<"payload">>]
    IN  CASE req_type = T_ECHO -> HandleEcho(request_id, payload)
          [] req_type = T_SYSTEM_INFO -> HandleSystemInfo(request_id, count)
          [] req_type = T_FILE_QUERY -> HandleFileQuery(request_id, payload, file)
          [] req_type = T_HELP -> HandleHelp(request_id)
          [] OTHER -> HandleUnknown(request_id, req.f[<<"type">>].s)

\* Lines 75-139.
handle_request(req, count, file) ==
    LET req_type == ReqType(req)
        request_id == req.f[<<"request_id">>].s
        payload == req.f[<<"payload">>]
    IN  CASE req_type = T_ECHO -> HandleEcho(request_id, payload)
          [] req_type = T_SYSTEM_INFO -> HandleSystemInfo(request_id, count)
          [] req_type = T_FILE_QUERY -> HandleFileQuery(request_id, payload, file)
          [] req_type = T_HELP -> HandleHelp(request_id)
          [] OTHER -> HandleUnknown(request_id, req_type)

\* handle_request takes active_clients_lock exactly on the SYSTEM_INFO branch.
ReadsCounter(req) == ReqType(req) = T_SYSTEM_INFO

(***************************************************************************)
(* One line of the inbound stream, as file_like.readline() returns it:     *)
(* whitespace, a body, whitespace, and the terminating newline (nl is      *)
(* FALSE for the unterminated text before the end of the stream).  The     *)
(* body is empty, text that is not JSON ("garbage"), a JSON text nested    *)
(* deeper than the interpreter's recursion limit ("deep"), the JSON text   *)
(* of val ("json"), or bytes that are not UTF-8 ("badutf8").               *)
(***************************************************************************)
Line(lead, k, val, trail, nl) ==
    [lead |-> lead, k |-> k, val |-> val, trail |-> trail, nl |-> nl]

\* The loop without its `if not line: continue`.
IsBlank_NeverSkips(line) == FALSE

\* Lines 158-160: line.strip() leaves nothing.
IsBlank(line) == line.k = "empty" /\ Strip(line.lead \o line.trail) = <<>>

\* A decoder that rejects every JSON text that is not an object.
json_loads_ObjectsOnly(line) ==
    CASE line.k = "json" /\ line.val.t = "obj" -> Returned(line.val)
      [] line.k = "deep" -> Raised("RecursionError")
      [] OTHER -> Raised("JSONDecodeError")

\* Line 164: json.loads of the stripped line.
json_loads(line) ==
    CASE line.k = "json" -> Returned(line.val)
      [] line.k = "deep" -> Raised("RecursionError")
      [] OTHER -> Raised("JSONDecodeError")

Skip == [act |-> "skip", resp |-> NoResponse, exc |-> "", dispatched |-> FALSE]

Send(resp, dispatched) ==
    [act |-> "send", resp |-> resp, exc |-> "", dispatched |-> dispatched]

Fault(exc, dispatched) ==
    [act |-> "raise", resp |-> NoResponse, exc |-> exc, dispatched |-> dispatched]

\* Lines 167-171.
InvalidJsonResponse ==
    make_response(<<>>, "ERROR", None,
                  ErrorObj("INVALID_JSON", <<"Could not parse JSON request">>))

\* The response to a request that fails validation never carrying its id.
RecoveredId_Empty(req_obj) == <<>>

\* Line 178 and line 180.
RecoveredId(req_obj) ==
    IF IsDict(req_obj) /\ Has(req_obj, <<"request_id">>)
       /\ IsStr(req_obj.f[<<"request_id">>])
    THEN req_obj.f[<<"request_id">>].s
    ELSE <<>>

\* Lines 177-183.
BadRequestResponse(req_obj, msg) ==
    make_response(RecoveredId(req_obj), "ERROR", None,
                  ErrorObj("BAD_REQUEST", msg))

\* Lines 197-201.
ServerErrorResponse(exc) ==
    make_response(<<>>, "ERROR", None,
                  ErrorObj("SERVER_ERROR", <<"Unexpected error: ", exc>>))

(***************************************************************************)
(* One iteration of the loop of client_thread on a line that readline      *)
(* returned (lines 158-189), up to the sendall of its response: the line   *)
(* is skipped, a response is to be sent, or an exception leaves the loop.  *)
(***************************************************************************)
Iteration(line, count, file) ==
    IF IsBlank(line) THEN Skip
    ELSE LET dec == json_loads(line) IN
         IF dec.raised
         THEN IF dec.exc = "JSONDecodeError"
              THEN Send(InvalidJsonResponse, FALSE)
              ELSE Fault(dec.exc, FALSE)
         ELSE LET v == validate_request(dec.val) IN
              IF ~v.valid
              THEN Send(BadRequestResponse(dec.val, v.msg), FALSE)
              ELSE LET h == handle_request(dec.val, count, file) IN
                   IF h.raised THEN Fault(h.exc, TRUE) ELSE Send(h.resp, TRUE)

\* The iteration takes active_clients_lock (lines 91-92).
TakesLock(line) ==
    /\ ~IsBlank(line)
    /\ ~json_loads(line).raised
    /\ validate_request(line.val).valid
    /\ ReadsCounter(line.val)

\* Lines 153-189 for one line of the stream: readline decodes it or raises.
LoopStep(line, count, file) ==
    IF line.k = "badutf8"
    THEN Fault("UnicodeDecodeError", FALSE)
    ELSE Iteration(line, count, file)

(***************************************************************************)
(* Inputs: the requests a peer sends and the states of the data file.      *)
(***************************************************************************)
Absent == [t |-> "absent", s |-> <<>>, n |-> 0, f |-> <<>>, e |-> <<>>]

ReqKeys == {<<"type">>, <<"request_id">>, <<"payload">>}

\* The JSON object with the given fields; a field that is Absent is left out.
MkReq(ty, id, pl) ==
    LET val(k) == IF k = <<"type">> THEN ty
                  ELSE IF k = <<"request_id">> THEN id ELSE pl
    IN  JObj([k \in {kk \in ReqKeys : val(kk) # Absent} |-> val(k)])

MkPayload(msg, key) ==
    LET val(k) == IF k = <<"message">> THEN msg ELSE key
    IN  JObj([k \in {kk \in {<<"message">>, <<"key">>} : val(kk) # Absent}
                |-> val(k)])

TypeValues ==
    {Absent, JNum(1)} \cup
    {JStr(s) : s \in {<<>>, <<" ">>, T_ECHO, <<"e","c","h","o">>,
                      <<" ","E","c","h","o","\t">>, T_HELP,
                      <<"h","e","l","p"," ">>, T_SYSTEM_INFO,
                      <<"s","y","s","t","e","m","_","i","n","f","o">>,
                      T_FILE_QUERY,
                      <<" ","f","i","l","e","_","q","u","e","r","y">>,
                      <<"P","I","N","G">>, <<" ","p","i","n","g"," ">>,
                      <<"o","k">>, <<"o",KelvinSign>>}}

IdValues ==
    {Absent, JNum(7), None} \cup
    {JStr(s) : s \in {<<>>, <<" ">>, <<"r","1">>, <<" ","r","2">>}}

MessageValues ==
    {Absent, JNum(5), None} \cup
    {JStr(s) : s \in {<<>>, <<"h","i">>, <<" ","h","i","\t">>, <<" ">>}}

KeyValues ==
    {Absent, JNum(5)} \cup
    {JStr(s) : s \in {<<>>, <<" ">>, <<"k">>, <<" ","k"," ">>, <<"z","z">>}}

PayloadValues ==
    {Absent, JArr(<<>>), JStr(<<"p">>)} \cup
    {MkPayload(m, Absent) : m \in MessageValues} \cup
    {MkPayload(Absent, k) : k \in KeyValues} \cup
    {MkPayload(JStr(<<"h","i">>), JStr(<<"k">>))}

Requests ==
    {MkReq(ty, id, pl) : ty \in TypeValues, id \in IdValues, pl \in PayloadValues}

NonObjects == {JArr(<<>>), JStr(<<"x">>), JNum(3), JBool, None}

Pads == {<< <<>>, <<>> >>, << <<" ">>, <<"\t">> >>}

AllLines ==
    {Line(pd[1], "json", v, pd[2], TRUE) : v \in Requests \cup NonObjects, pd \in Pads}
    \cup {Line(pd[1], k, None, pd[2], TRUE) :
              k \in {"empty", "garbage", "deep", "badutf8"}, pd \in Pads}

File(st, val) == [st |-> st, val |-> val]

Table ==
    Dict2(<<"k">>, JStr(<<"v">>), <<"z","z">>, JNum(3))

DataFiles ==
    {File(st, None) : st \in {"missing", "unreadable", "undecodable", "malformed"}}
    \cup {File("json", v) :
            v \in {EmptyDict, Table, JArr(<<JStr(<<"k">>)>>),
                   JStr(<<"k","k">>), JNum(5), None}}

(***************************************************************************)
(* The lines the peers of the concurrent sessions send.                    *)
(***************************************************************************)
Req(ty, id, msg, key) == MkReq(JStr(ty), JStr(id), MkPayload(msg, key))

L_blank == Line(<<" ">>, "empty", None, <<>>, TRUE)
L_garbage == Line(<<>>, "garbage", None, <<>>, TRUE)
L_deep == Line(<<>>, "deep", None, <<>>, TRUE)
L_badutf8 == Line(<<>>, "badutf8", None, <<>>, TRUE)
L_echo ==
    Line(<<>>, "json",
         Req(<<"e","c","h","o">>, <<"r","1">>, JStr(<<" ","h","i","\t">>), Absent),
         <<>>, TRUE)
L_info == Line(<<>>, "json", Req(T_SYSTEM_INFO, <<"r","2">>, Absent, Absent), <<>>, TRUE)
L_query == Line(<<>>, "json", Req(T_FILE_QUERY, <<"r","3">>, Absent, JStr(<<"k">>)), <<>>, TRUE)
L_nopayload ==
    Line(<<>>, "json", MkReq(JStr(T_ECHO), JStr(<<"r","4">>), Absent), <<>>, TRUE)

\* The lines of concurrent sessions, and the lines of one pipelining peer.
SessionLines == {L_info, L_query, L_badutf8}

PipelineLines ==
    {L_blank, L_garbage, L_deep, L_badutf8, L_echo, L_info, L_query, L_nopayload}

\* The states of the data file while the sessions run.
SessionFiles == {File("json", Table), File("json", JNum(5))}

\* Text a peer leaves unterminated before it closes the stream.
Fragments == {[L_echo EXCEPT !.nl = FALSE], [L_blank EXCEPT !.nl = FALSE]}

(***************************************************************************)
(* State.                                                                  *)
(*   accepted        connections main has accepted (line 232), numbered in *)
(*                   the order of their accept                             *)
(*   active_clients  the shared counter (line 30)                          *)
(*   lock            holder of active_clients_lock (line 29), 0 when free  *)
(*   quota           the connections and lines of the run, and the lines   *)
(*                   its peers choose from                                 *)
(* and for each connection c:                                              *)
(*   pc[c]       position of its client_thread                             *)
(*   tmp[c]      value of active_clients loaded by its `+= 1` or `-= 1`    *)
(*   sockOpen[c] conn is accepted and not yet closed by conn.close()       *)
(*   peer[c]     the peer: "open", or "closed" once it has ended the       *)
(*               connection (the thread then meets the end of the stream   *)
(*               or a ConnectionResetError); "gone" once conn.close() has  *)
(*               ended the connection                                      *)
(*   inbound[c]  lines sent by the peer and not yet returned by readline   *)
(*   outbound[c] responses written by a sendall that returned              *)
(*   pending[c]  the response the thread is about to send                  *)
(*   log[c]      history: the lines readline returned, each with the       *)
(*               number of responses written for it                        *)
(*   hist[c]     history: number of increments, decrements and closes of   *)
(*               the thread, whether a sendall failed, the way the loop    *)
(*               was left, where the exception handled at lines 194-204    *)
(*               was raised, the responses written for no line read        *)
(*   snap[c]     history: what the SYSTEM_INFO handler of c read for the   *)
(*               response it is about to send, and the connections at      *)
(*               that moment                                               *)
(* The p_ variables hold one line and what the loop makes of it.           *)
(***************************************************************************)
VARIABLES accepted, active_clients, lock, quota,
          pc, tmp, sockOpen, peer, inbound, outbound, pending,
          log, hist, snap,
          p_pc, p_line, p_count, p_file, p_out, p_resp

Conns == 1..MaxConns

listenerVars == <<accepted, quota>>
sharedVars == <<active_clients, lock>>
serverVars == <<pc, tmp, sockOpen, pending, outbound>>
peerVars == <<peer, inbound>>
histVars == <<log, hist, snap>>
pureVars == <<p_pc, p_line, p_count, p_file, p_out, p_resp>>
vars == <<accepted, active_clients, lock, quota,
          pc, tmp, sockOpen, peer, inbound, outbound, pending,
          log, hist, snap,
          p_pc, p_line, p_count, p_file, p_out, p_resp>>

NoHist ==
    [incs |-> 0, decs |-> 0, closes |-> 0, wfail |-> FALSE, exit |-> "", stage |-> "",
     extra |-> 0]

NoSnap == [taken |-> FALSE, count |-> 0, open |-> 0, waiting |-> 0, closing |-> 0]

PureIdle ==
    /\ p_pc = "off"
    /\ p_line = L_blank
    /\ p_count = 0
    /\ p_file = File("missing", None)
    /\ p_out = Skip
    /\ p_resp = NoResponse

SessionInit ==
    /\ accepted = 0
    /\ active_clients = 0
    /\ lock = 0
    /\ pc = [c \in Conns |-> "none"]
    /\ tmp = [c \in Conns |-> 0]
    /\ sockOpen = [c \in Conns |-> FALSE]
    /\ peer = [c \in Conns |-> "none"]
    /\ inbound = [c \in Conns |-> <<>>]
    /\ outbound = [c \in Conns |-> <<>>]
    /\ pending = [c \in Conns |-> NoResponse]
    /\ log = [c \in Conns |-> <<>>]
    /\ hist = [c \in Conns |-> NoHist]
    /\ snap = [c \in Conns |-> NoSnap]

\* Concurrent sessions.
Init ==
    /\ quota = [conns |-> MaxConns, lines |-> MaxRequests, pipelined |-> FALSE]
    /\ SessionInit
    /\ PureIdle

\* One session whose peer pipelines its lines.
InitPipeline ==
    /\ quota = [conns |-> 1, lines |-> MaxLines, pipelined |-> TRUE]
    /\ SessionInit
    /\ PureIdle

(***************************************************************************)
(* The listener (main, lines 231-236) and the peers.                       *)
(***************************************************************************)
\* accept() returns a connection and its thread is started.
Accept ==
    /\ accepted < quota.conns
    /\ LET c == accepted + 1 IN
        /\ accepted' = c
        /\ pc' = [pc EXCEPT ![c] = "spawned"]
        /\ sockOpen' = [sockOpen EXCEPT ![c] = TRUE]
        /\ peer' = [peer EXCEPT ![c] = "open"]
    /\ UNCHANGED <<quota, sharedVars, tmp, inbound, outbound, pending,
                   histVars, pureVars>>

RECURSIVE SumOver(_, _)
SumOver(F, S) ==
    IF S = {} THEN 0
    ELSE LET c == CHOOSE d \in S : TRUE IN F[c] + SumOver(F, S \ {c})

\* Lines sent so far, over all connections.
Sent == SumOver([c \in Conns |-> Len(inbound[c]) + Len(log[c])], Conns)

\* The peer sends one newline-terminated line.
PeerSend(c) ==
    /\ peer[c] = "open" /\ sockOpen[c]
    /\ Sent < quota.lines
    /\ \E line \in (IF quota.pipelined THEN PipelineLines ELSE SessionLines) :
          inbound' = [inbound EXCEPT ![c] = Append(@, line)]
    /\ UNCHANGED <<listenerVars, sharedVars, serverVars, peer, histVars, pureVars>>

\* The peer ends the connection, by close() or by a reset, after
\* unterminated text or after a newline.
PeerClose(c) ==
    /\ peer[c] = "open" /\ sockOpen[c]
    /\ peer' = [peer EXCEPT ![c] = "closed"]
    /\ \/ UNCHANGED inbound
       \/ /\ Sent < quota.lines /\ quota.pipelined
          /\ \E line \in Fragments :
                inbound' = [inbound EXCEPT ![c] = Append(@, line)]
    /\ UNCHANGED <<listenerVars, sharedVars, serverVars, histVars, pureVars>>

(***************************************************************************)
(* client_thread.                                                          *)
(***************************************************************************)
\* active_clients updated and read without the lock.
LockFree_Unlocked == TRUE

\* `with active_clients_lock:` can be entered (lines 91, 146, 211).
LockFree == lock = 0

\* Lines 146-147: the lock is taken and active_clients is loaded.
Start(c) ==
    /\ pc[c] = "spawned"
    /\ LockFree
    /\ lock' = c
    /\ tmp' = [tmp EXCEPT ![c] = active_clients]
    /\ pc' = [pc EXCEPT ![c] = "inc"]
    /\ UNCHANGED <<listenerVars, active_clients, sockOpen, pending, outbound,
                   peerVars, histVars, pureVars>>

\* Line 147: the sum is stored and the lock released.
StartStore(c) ==
    /\ pc[c] = "inc"
    /\ active_clients' = tmp[c] + 1
    /\ lock' = 0
    /\ tmp' = [tmp EXCEPT ![c] = 0]
    /\ pc' = [pc EXCEPT ![c] = "await"]
    /\ hist' = [hist EXCEPT ![c].incs = @ + 1]
    /\ UNCHANGED <<listenerVars, sockOpen, pending, outbound, peerVars,
                   log, snap, pureVars>>

\* The decoder of file_like meets bytes that are not UTF-8 in what it has
\* received: the line itself, or a later line of the same chunk.
UndecodableAhead(c) ==
    \E i \in 1..Len(inbound[c]) : inbound[c][i].k = "badutf8"

Logged(line) == [line |-> line, nresp |-> 0]

Answered(lg) == [lg EXCEPT ![Len(lg)].nresp = @ + 1]

\* What the SYSTEM_INFO handler reads under the lock, with the connections
\* at that moment.
Snapshot ==
    [taken |-> TRUE,
     count |-> active_clients,
     open |-> Cardinality({d \in Conns : sockOpen[d]}),
     waiting |-> Cardinality({d \in Conns : pc[d] \in {"spawned", "inc"}}),
     closing |-> Cardinality({d \in Conns : pc[d] \in {"closed", "dec"}})]

\* A sendall that puts its bytes ahead of those already written.
Sendall_Prepend(q, resp) == <<resp>> \o q

\* Lines 172, 184, 189 and 202: a conn.sendall that returns has put the
\* response line on the outbound stream q, after what was written before.
Sendall(q, resp) == Append(q, resp)

\* How conn.sendall can end: it returns, or raises ConnectionResetError or
\* another OSError (BrokenPipeError) once the peer has ended the connection.
SendOutcomes(c) ==
    IF peer[c] = "open" THEN {"ok"} ELSE {"ok", "reset", "broken"}

\* The cleanup at the end of the try block: an exception skips it.
Finally_OnlyOnReturn(how) == IF how = "fault" THEN "done" ELSE "closed"

\* The handler of an exception logging it and going on with the loop.
Finally_FaultContinues(how) == IF how = "fault" THEN "await" ELSE "closed"

\* Lines 205-212: whichever way the loop is left (how), the finally block
\* runs: the position after conn.close().
Finally(how) == "closed"

\* Lines 205-209: the loop is left and conn.close() is called.
Left(h, how) == [h EXCEPT !.exit = how, !.closes = @ + 1]

\* Lines 194-209: the handler of an exception that is not a
\* ConnectionResetError sends the SERVER_ERROR response, or its sendall
\* raises and that exception is dropped; then the socket is closed.
\* stage: where the exception was raised, in readline ("read"), in
\* json.loads ("decode"), in handle_request ("dispatch") or in the sendall
\* of the response ("send"); lg: the lines read so far.
Except(c, ex, stage, lg) ==
    /\ \E o \in SendOutcomes(c) :
          IF o = "ok"
          THEN /\ outbound' = [outbound EXCEPT ![c] =
                                  Sendall(@, ServerErrorResponse(ex))]
               /\ log' = [log EXCEPT ![c] =
                              IF stage = "read" THEN lg ELSE Answered(lg)]
               /\ hist' = [hist EXCEPT ![c] =
                              [Left(@, "fault") EXCEPT
                                  !.stage = stage,
                                  !.wfail = (stage = "send"),
                                  !.extra = IF stage = "read" THEN 1 ELSE 0]]
          ELSE /\ outbound' = outbound
               /\ log' = [log EXCEPT ![c] = lg]
               /\ hist' = [hist EXCEPT ![c] =
                              [Left(@, "fault") EXCEPT
                                  !.stage = stage, !.wfail = TRUE]]
    /\ pc' = [pc EXCEPT ![c] = Finally("fault")]
    /\ sockOpen' = [sockOpen EXCEPT ![c] = FALSE]
    /\ peer' = [peer EXCEPT ![c] = "gone"]
    /\ pending' = [pending EXCEPT ![c] = NoResponse]

\* Lines 154-188: readline returns a line and the loop body runs up to the
\* sendall of the response, or to the handler of the exception it raises.
ReadLine(c) ==
    /\ pc[c] = "await"
    /\ inbound[c] # <<>>
    /\ Head(inbound[c]).k # "badutf8"
    /\ LET line == Head(inbound[c]) IN
        /\ TakesLock(line) => LockFree
        /\ inbound' = [inbound EXCEPT ![c] = Tail(@)]
        /\ \E file \in SessionFiles :
            \E out \in {Iteration(line, active_clients, file)} :
              CASE out.act = "skip" ->
                     /\ log' = [log EXCEPT ![c] = Append(@, Logged(line))]
                     /\ UNCHANGED <<pc, pending, snap, sockOpen, outbound, hist, peer>>
                [] out.act = "send" ->
                     /\ log' = [log EXCEPT ![c] = Append(@, Logged(line))]
                     /\ pc' = [pc EXCEPT ![c] = "send"]
                     /\ pending' = [pending EXCEPT ![c] = out.resp]
                     /\ snap' = IF TakesLock(line)
                                THEN [snap EXCEPT ![c] = Snapshot] ELSE snap
                     /\ UNCHANGED <<sockOpen, outbound, hist, peer>>
                [] OTHER ->
                     /\ Except(c, out.exc,
                               IF out.dispatched THEN "dispatch" ELSE "decode",
                               Append(log[c], Logged(line)))
                     /\ UNCHANGED snap
    /\ UNCHANGED <<listenerVars, sharedVars, tmp, pureVars>>

\* Line 154: readline raises UnicodeDecodeError.
ReadUndecodable(c) ==
    /\ pc[c] = "await"
    /\ UndecodableAhead(c)
    /\ Except(c, "UnicodeDecodeError", "read", log[c])
    /\ UNCHANGED <<listenerVars, sharedVars, tmp, inbound, snap, pureVars>>

\* A fault in one thread ending the process: every socket is closed.
Leave_ClosesAll(c, how, failed) ==
    /\ pc' = [pc EXCEPT ![c] = Finally(how)]
    /\ sockOpen' = [d \in Conns |-> FALSE]
    /\ peer' = [peer EXCEPT ![c] = "gone"]
    /\ pending' = [pending EXCEPT ![c] = NoResponse]
    /\ hist' = [hist EXCEPT ![c] = [Left(@, how) EXCEPT !.wfail = failed]]

\* The loop is left without a SERVER_ERROR response: readline returned ""
\* (lines 155-156) or ConnectionResetError was raised (lines 191-193).
Leave(c, how, failed) ==
    /\ pc' = [pc EXCEPT ![c] = Finally(how)]
    /\ sockOpen' = [sockOpen EXCEPT ![c] = FALSE]
    /\ peer' = [peer EXCEPT ![c] = "gone"]
    /\ pending' = [pending EXCEPT ![c] = NoResponse]
    /\ hist' = [hist EXCEPT ![c] = [Left(@, how) EXCEPT !.wfail = failed]]

\* Lines 154-156: readline returns "" at the end of the stream.
ReadEof(c) ==
    /\ pc[c] = "await"
    /\ inbound[c] = <<>>
    /\ peer[c] = "closed"
    /\ Leave(c, "eof", FALSE)
    /\ UNCHANGED <<listenerVars, sharedVars, tmp, outbound, inbound, log, snap,
                   pureVars>>

\* Lines 154 and 191-193: readline raises ConnectionResetError.
ReadReset(c) ==
    /\ pc[c] = "await"
    /\ peer[c] = "closed"
    /\ Leave(c, "reset", FALSE)
    /\ UNCHANGED <<listenerVars, sharedVars, tmp, outbound, inbound, log, snap,
                   pureVars>>

\* Line 172, 184 or 189: sendall returns and the loop continues, or it
\* raises and the loop is left.
Write(c) ==
    /\ pc[c] = "send"
    /\ \E o \in SendOutcomes(c) :
          CASE o = "ok" ->
                 /\ outbound' = [outbound EXCEPT ![c] = Sendall(@, pending[c])]
                 /\ log' = [log EXCEPT ![c] = Answered(@)]
                 /\ pending' = [pending EXCEPT ![c] = NoResponse]
                 /\ pc' = [pc EXCEPT ![c] = "await"]
                 /\ UNCHANGED <<sockOpen, hist, peer>>
            [] o = "reset" ->
                 /\ Leave(c, "reset", TRUE)
                 /\ UNCHANGED <<outbound, log>>
            [] OTHER ->
                 Except(c, "BrokenPipeError", "send", log[c])
    /\ snap' = [snap EXCEPT ![c] = NoSnap]
    /\ UNCHANGED <<listenerVars, sharedVars, tmp, inbound, pureVars>>

\* Lines 211-212: the lock is taken and active_clients is loaded.
Finish(c) ==
    /\ pc[c] = "closed"
    /\ LockFree
    /\ lock' = c
    /\ tmp' = [tmp EXCEPT ![c] = active_clients]
    /\ pc' = [pc EXCEPT ![c] = "dec"]
    /\ UNCHANGED <<listenerVars, active_clients, sockOpen, pending, outbound,
                   peerVars, histVars, pureVars>>

\* Line 212: the difference is stored and the lock released.
FinishStore(c) ==
    /\ pc[c] = "dec"
    /\ active_clients' = tmp[c] - 1
    /\ lock' = 0
    /\ tmp' = [tmp EXCEPT ![c] = 0]
    /\ pc' = [pc EXCEPT ![c] = "done"]
    /\ hist' = [hist EXCEPT ![c].decs = @ + 1]
    /\ UNCHANGED <<listenerVars, sockOpen, pending, outbound, peerVars,
                   log, snap, pureVars>>

SessionStep(c) ==
    \/ Start(c) \/ StartStore(c)
    \/ ReadLine(c) \/ ReadUndecodable(c) \/ ReadEof(c) \/ ReadReset(c)
    \/ Write(c)
    \/ Finish(c) \/ FinishStore(c)

PeerStep(c) == PeerSend(c) \/ PeerClose(c)

Next ==
    \/ Accept
    \/ \E c \in Conns : PeerStep(c)
    \/ \E c \in Conns : SessionStep(c)

Spec == Init /\ [][Next]_vars

SpecPipeline == InitPipeline /\ [][Next]_vars

\* Concurrent sessions whose peers send one line between them.
InitFair ==
    /\ quota = [conns |-> MaxConns, lines |-> 1, pipelined |-> FALSE]
    /\ SessionInit
    /\ PureIdle

\* The scheduler lets every thread run and the lock is handed to a thread
\* that waits for it: a thread that can take a step and is not stopped from
\* taking it does take one.  Nothing is required of the peers or of accept.
Fairness == \A c \in Conns : WF_vars(SessionStep(c))

SpecFair == InitFair /\ [][Next]_vars /\ Fairness

(***************************************************************************)
(* One line through the loop of client_thread: every line of AllLines,     *)
(* every state of the data file, every value of the counter.               *)
(***************************************************************************)
InitLine ==
    /\ quota = [conns |-> 0, lines |-> 0, pipelined |-> FALSE]
    /\ SessionInit
    /\ p_pc = "input"
    /\ p_line \in AllLines
    /\ p_count \in 1..MaxConns
    /\ p_file \in DataFiles
    /\ p_out = Skip
    /\ p_resp = NoResponse

\* Lines 153-189 on p_line.
Loop ==
    /\ p_pc = "input"
    /\ p_out' = LoopStep(p_line, p_count, p_file)
    /\ p_resp' = p_out'.resp
    /\ p_pc' = IF p_out'.act = "raise" THEN "raised" ELSE "looped"
    /\ UNCHANGED <<listenerVars, sharedVars, serverVars, peerVars, histVars,
                   p_line, p_count, p_file>>

\* Lines 194-202 on the exception the loop raised.
Handler ==
    /\ p_pc = "raised"
    /\ p_resp' = ServerErrorResponse(p_out.exc)
    /\ p_pc' = "reported"
    /\ UNCHANGED <<listenerVars, sharedVars, serverVars, peerVars, histVars,
                   p_line, p_count, p_file, p_out>>

NextLine == Loop \/ Handler

SpecLine == InitLine /\ [][NextLine]_vars

\* A response is written for p_line: by the loop, or by the handler.
Responded ==
    \/ p_pc = "looped" /\ p_out.act = "send"
    \/ p_pc = "reported"

(***************************************************************************)
(* Properties.                                                             *)
(***************************************************************************)
\* The text of the line is empty or whitespace only.
OnlyWhitespace(line) ==
    /\ line.k = "empty"
    /\ \A i \in 1..Len(line.lead) : line.lead[i] \in Whitespace
    /\ \A i \in 1..Len(line.trail) : line.trail[i] \in Whitespace

Gone(c) == pc[c] \in {"closed", "dec", "done"}

\* Responses written for the lines read, plus the SERVER_ERROR response of
\* a readline that raised.
RECURSIVE Responses(_)
Responses(lg) ==
    IF lg = <<>> THEN 0 ELSE Head(lg).nresp + Responses(Tail(lg))

\* C1 as stated: when a session is about to read, every newline-terminated
\* line it has read so far has exactly one response.
C1_EveryLineAnswered ==
    \A c \in Conns :
        pc[c] = "await" =>
            \A i \in 1..Len(log[c]) :
                log[c][i].line.nl => log[c][i].nresp = 1

\* C1 amended: a newline-terminated line that is not blank has exactly one
\* response before the next line is read, and keeps exactly one unless its
\* sendall failed; a blank line has none; no line ever has two, and the
\* session writes nothing else but the SERVER_ERROR response of a failed
\* readline.
C1_NonBlankLineAnswered ==
    \A c \in Conns :
        /\ \A i \in 1..Len(log[c]) :
              LET e == log[c][i] IN
              e.line.nl =>
                /\ e.nresp <= 1
                /\ OnlyWhitespace(e.line) => e.nresp = 0
                /\ ( /\ ~OnlyWhitespace(e.line)
                     /\ \/ i < Len(log[c])
                        \/ pc[c] = "await"
                        \/ Gone(c) /\ ~hist[c].wfail )
                   => e.nresp = 1
        /\ Len(outbound[c]) = Responses(log[c]) + hist[c].extra

\* A session has read a blank line and then a request, answered the request
\* and is about to read again.
C1_Witness ==
    \E c \in Conns :
        /\ pc[c] = "await"
        /\ Len(log[c]) = 2
        /\ OnlyWhitespace(log[c][1].line) /\ log[c][1].nresp = 0
        /\ ~OnlyWhitespace(log[c][2].line) /\ log[c][2].nresp = 1
        /\ Len(outbound[c]) = 1

\* The line is the JSON text of an object whose request_id is a string.
HasStringId(line) ==
    /\ line.k = "json"
    /\ line.val.t = "obj"
    /\ <<"request_id">> \in DOMAIN line.val.f
    /\ line.val.f[<<"request_id">>].t = "str"

ErrorCode(resp) == resp.error.f[<<"code">>].s

\* C2: the response written for a line carries the request_id of the line
\* when the line decoded to a JSON object whose request_id is a string, and
\* the empty string otherwise.
C2_RequestIdEchoed ==
    Responded =>
        p_resp.request_id =
            (IF HasStringId(p_line) THEN p_line.val.f[<<"request_id">>].s ELSE <<>>)

\* The line is not blank and its text is not the text of a JSON value.
Unparseable(line) == line.k \in {"garbage", "deep", "badutf8"}

\* C3: a line that cannot be parsed as JSON is answered with INVALID_JSON
\* and an empty request_id, and the loop goes on to the next line.
C3_UnparseableLineInvalidJson ==
    (p_pc # "input" /\ Unparseable(p_line)) =>
        /\ p_pc = "looped"
        /\ p_out.act = "send"
        /\ p_resp.status = "ERROR"
        /\ ErrorCode(p_resp) = <<"INVALID_JSON">>
        /\ p_resp.request_id = <<>>

ErrorCodes ==
    {<<"BAD_REQUEST">>, <<"NOT_FOUND">>, <<"UNKNOWN_TYPE">>, <<"INVALID_JSON">>,
     <<"SERVER_ERROR">>}

\* C9: every response written has data that is an object, and either status
\* OK with error null, or status ERROR with data the empty object and error
\* an object {code, message} whose code is one of the five codes.
C9_ResponseShape ==
    Responded =>
        /\ p_resp.data.t = "obj"
        /\ \/ p_resp.status = "OK" /\ p_resp.error.t = "null"
           \/ /\ p_resp.status = "ERROR"
              /\ p_resp.data.t = "obj" /\ DOMAIN p_resp.data.f = {}
              /\ p_resp.error.t = "obj"
              /\ DOMAIN p_resp.error.f = {<<"code">>, <<"message">>}
              /\ p_resp.error.f[<<"code">>].t = "str"
              /\ p_resp.error.f[<<"message">>].t = "str"
              /\ ErrorCode(p_resp) \in ErrorCodes

\* An error response written by the loop and one written by the handler
\* of an exception.
C9_Witness ==
    /\ Responded
    /\ p_resp.status = "ERROR"
    /\ ErrorCode(p_resp) = <<"NOT_FOUND">>
    /\ p_resp.data.t = "obj" /\ DOMAIN p_resp.data.f = {}

\* The line is a request that passes validation and whose type is ECHO up
\* to case and surrounding whitespace.
IsEchoRequest(line) ==
    /\ line.k = "json"
    /\ validate_request(line.val).valid
    /\ Upper(Strip(line.val.f[<<"type">>].s)) = <<"E","C","H","O">>

EchoMessage(line) == line.val.f[<<"payload">>].f[<<"message">>]

HasStringMessage(line) ==
    /\ <<"message">> \in DOMAIN line.val.f[<<"payload">>].f
    /\ EchoMessage(line).t = "str"

\* C10: a valid ECHO request whose payload.message is a string is answered
\* OK with data.echo equal to that string, character for character; one
\* whose payload.message is missing or not a string is answered BAD_REQUEST.
C10_EchoRoundTrip ==
    (p_pc # "input" /\ IsEchoRequest(p_line)) =>
        /\ Responded /\ p_pc = "looped"
        /\ IF HasStringMessage(p_line)
           THEN /\ p_resp.status = "OK"
                /\ DOMAIN p_resp.data.f = {<<"echo">>}
                /\ p_resp.data.f[<<"echo">>].t = "str"
                /\ p_resp.data.f[<<"echo">>].s = EchoMessage(p_line).s
           ELSE /\ p_resp.status = "ERROR"
                /\ ErrorCode(p_resp) = <<"BAD_REQUEST">>

\* An ECHO whose message has whitespace at both ends has been answered.
C10_Witness ==
    /\ p_pc = "looped"
    /\ IsEchoRequest(p_line)
    /\ HasStringMessage(p_line)
    /\ EchoMessage(p_line).s = <<" ","h","i","\t">>
    /\ p_resp.status = "OK"
    /\ p_resp.data.f[<<"echo">>].s = <<" ","h","i","\t">>

\* The session of c has stored its increment and not yet its decrement.
Registered(c) == pc[c] \in {"await", "send", "closed", "dec"}

\* C4: active_clients is the number of sessions that have incremented it
\* and not yet decremented it; it is zero before any session starts and is
\* never negative.
C4_CounterCountsSessions ==
    /\ active_clients = Cardinality({c \in Conns : Registered(c)})
    /\ active_clients >= 0
    /\ accepted = 0 => active_clients = 0

\* One session holds the lock inside its increment or decrement while
\* another waits to enter its own, and a session is registered.
C4_Witness ==
    /\ lock # 0
    /\ \E d \in Conns : d # lock /\ pc[d] \in {"spawned", "closed"}
    /\ active_clients >= 1

ReportedClients(resp) == resp.data.f[<<"active_clients">>].n

\* C5 as stated: the value a SYSTEM_INFO response carries differs from the
\* number of open connections at the read by at most the number of
\* connections accepted whose session has not started.
C5_CountWithinAccepts ==
    \A c \in Conns :
        snap[c].taken =>
            LET diff == ReportedClients(pending[c]) - snap[c].open IN
            /\ diff <= snap[c].waiting
            /\ 0 - diff <= snap[c].waiting

\* C5 amended: the value is the number of open connections at the read,
\* less those accepted whose session has not yet incremented the counter,
\* plus those whose session has closed its socket and not yet decremented
\* the counter.
C5_CountOpenStartingClosing ==
    \A c \in Conns :
        snap[c].taken =>
            /\ pc[c] = "send"
            /\ ReportedClients(pending[c]) =
                  snap[c].open - snap[c].waiting + snap[c].closing
            /\ ReportedClients(pending[c]) = snap[c].count

\* A SYSTEM_INFO handler has read the counter while another session had
\* closed its socket and not yet decremented.
C5_Witness ==
    \E c \in Conns :
        /\ snap[c].taken
        /\ snap[c].closing = 1
        /\ snap[c].waiting = 0
        /\ ReportedClients(pending[c]) = snap[c].open + 1

\* C6: a session increments at most once; when it has left its loop, by
\* whatever path, its socket has been closed exactly once; it decrements
\* only after that, and when it has ended it has decremented exactly once.
C6_CleanupOnEveryExit ==
    \A c \in Conns :
        /\ hist[c].incs <= 1 /\ hist[c].closes <= 1 /\ hist[c].decs <= 1
        /\ hist[c].exit # "" =>
              /\ hist[c].incs = 1 /\ hist[c].closes = 1 /\ ~sockOpen[c]
              /\ pc[c] \in {"closed", "dec", "done"}
        /\ hist[c].decs = 1 <=> pc[c] = "done"
        /\ pc[c] = "done" => hist[c].exit \in {"eof", "reset", "fault"}
        /\ hist[c].closes = 1 => hist[c].exit # ""

\* A session whose sendall failed, and one that handled an exception, have
\* ended with one close and one decrement.
C6_Witness ==
    \E c \in Conns :
        /\ pc[c] = "done"
        /\ hist[c].exit = "fault"
        /\ hist[c].wfail
        /\ hist[c].closes = 1 /\ hist[c].decs = 1

Last(q) == q[Len(q)]

IsServerError(resp) ==
    /\ resp.status = "ERROR"
    /\ resp.error.t = "obj"
    /\ resp.error.f[<<"code">>].s = <<"SERVER_ERROR">>

\* The session of c has left its loop by an exception of handle_request and
\* its socket is closed.
ClosedByDispatchFault(c) ==
    /\ hist[c].stage = "dispatch"
    /\ pc[c] \in {"closed", "dec", "done"}
    /\ ~sockOpen[c]
    /\ hist[c].closes = 1
    /\ log[c] # <<>>

\* C7 as stated: after an exception of handle_request the session has
\* written one SERVER_ERROR response for the request and is closed.
C7_FaultReportedThenClosed ==
    \A c \in Conns :
        hist[c].stage = "dispatch" =>
            /\ ClosedByDispatchFault(c)
            /\ Last(log[c]).nresp = 1
            /\ outbound[c] # <<>>
            /\ IsServerError(Last(outbound[c]))

\* C7 amended: after an exception of handle_request the session is closed;
\* it has written one SERVER_ERROR response for the request, or nothing for
\* it when the sendall of that response raised; from then on it reads no
\* line and writes no response.
C7_FaultThenClosed ==
    /\ [](\A c \in Conns :
            hist[c].stage = "dispatch" =>
                /\ ClosedByDispatchFault(c)
                /\ IF hist[c].wfail
                   THEN /\ Last(log[c]).nresp = 0
                        /\ \A i \in 1..Len(outbound[c]) :
                               ~IsServerError(outbound[c][i])
                   ELSE /\ Last(log[c]).nresp = 1
                        /\ outbound[c] # <<>>
                        /\ IsServerError(Last(outbound[c]))
                        /\ Last(outbound[c]).request_id = <<>>)
    /\ [][\A c \in Conns :
            hist[c].stage = "dispatch" =>
                /\ log'[c] = log[c]
                /\ outbound'[c] = outbound[c]
                /\ inbound'[c] = inbound[c]
                /\ hist'[c].stage = "dispatch"]_vars

\* A session has ended after an exception of handle_request, with its
\* SERVER_ERROR response written and a later line of the peer left unread.
C7_Witness ==
    \E c \in Conns :
        /\ pc[c] = "done"
        /\ hist[c].stage = "dispatch"
        /\ ~hist[c].wfail
        /\ IsServerError(Last(outbound[c]))
        /\ inbound[c] # <<>>

\* Everything of connection d but the shared counter and its lock.
Private(d) ==
    <<pc[d], tmp[d], sockOpen[d], peer[d], inbound[d], outbound[d], pending[d],
      log[d], hist[d], snap[d]>>

\* C8: a step of the session of c leaves every other connection and the
\* listener as they were.
C8_SessionStepFrame ==
    [][\A c \in Conns :
          SessionStep(c) =>
              /\ accepted' = accepted
              /\ \A d \in Conns \ {c} : Private(d)' = Private(d)]_vars

\* One session has ended by an exception while another, accepted and
\* registered, is waiting for a line of its peer.
C8_Witness ==
    \E c, d \in Conns :
        /\ c # d
        /\ pc[c] = "done" /\ hist[c].exit = "fault"
        /\ pc[d] = "await" /\ sockOpen[d] /\ peer[d] = "open"

\* The line is a request that passes validation and whose type is
\* FILE_QUERY up to case and surrounding whitespace.
IsFileQuery(line) ==
    /\ line.k = "json"
    /\ validate_request(line.val).valid
    /\ Upper(Strip(line.val.f[<<"type">>].s)) =
          <<"F","I","L","E","_","Q","U","E","R","Y">>

\* The data file gives a lookup table: it holds a JSON object, or it is
\* missing, unreadable or malformed and the table is empty.
IsTable(file) ==
    \/ file.st \in {"missing", "unreadable", "malformed"}
    \/ file.st = "json" /\ file.val.t = "obj"

TableOf(file) == IF file.st = "json" THEN file.val.f ELSE <<>>

QueryKey(line) == line.val.f[<<"payload">>].f[<<"key">>]

\* payload.key is missing, not a string, or empty or whitespace only.
NoQueryKey(line) ==
    \/ <<"key">> \notin DOMAIN line.val.f[<<"payload">>].f
    \/ QueryKey(line).t # "str"
    \/ \A i \in 1..Len(QueryKey(line).s) : QueryKey(line).s[i] \in Whitespace

\* The response is OK with data {key, value} for the key k of table tb.
FoundResponse(resp, k, tb) ==
    /\ resp.status = "OK"
    /\ resp.error.t = "null"
    /\ DOMAIN resp.data.f = {<<"key">>, <<"value">>}
    /\ resp.data.f[<<"key">>] = JStr(k)
    /\ resp.data.f[<<"value">>] = tb[k]

\* The response a FILE_QUERY gets when the table is looked up under key k.
QueryAnswered(line, file, k) ==
    /\ Responded /\ p_pc = "looped"
    /\ p_resp.request_id = line.val.f[<<"request_id">>].s
    /\ IF NoQueryKey(line)
       THEN p_resp.status = "ERROR" /\ ErrorCode(p_resp) = <<"BAD_REQUEST">>
       ELSE IF k \notin DOMAIN TableOf(file)
       THEN p_resp.status = "ERROR" /\ ErrorCode(p_resp) = <<"NOT_FOUND">>
       ELSE FoundResponse(p_resp, k, TableOf(file))

\* C11 as stated: a valid FILE_QUERY is answered BAD_REQUEST exactly when
\* payload.key is missing, not a string or blank, otherwise NOT_FOUND exactly
\* when the key as given in the payload is absent from the table, otherwise
\* OK with data {key, value} for the key as given.
C11_FileQueryKeyAsGiven ==
    (p_pc # "input" /\ IsFileQuery(p_line) /\ IsTable(p_file)) =>
        QueryAnswered(p_line, p_file,
                      IF NoQueryKey(p_line) THEN <<>> ELSE QueryKey(p_line).s)

\* C11 amended: the same, with the key looked up and returned being
\* payload.key with its surrounding whitespace stripped.
C11_FileQueryKeyStripped ==
    (p_pc # "input" /\ IsFileQuery(p_line) /\ IsTable(p_file)) =>
        QueryAnswered(p_line, p_file,
                      IF NoQueryKey(p_line) THEN <<>> ELSE Strip(QueryKey(p_line).s))

\* A FILE_QUERY for " k " has been answered OK with the table's value for
\* "k".
C11_Witness ==
    /\ p_pc = "looped"
    /\ IsFileQuery(p_line) /\ IsTable(p_file)
    /\ ~NoQueryKey(p_line)
    /\ QueryKey(p_line).s = <<" ","k"," ">>
    /\ p_resp.status = "OK"
    /\ p_resp.data.f[<<"key">>] = JStr(<<"k">>)
    /\ p_resp.data.f[<<"value">>] = JStr(<<"v">>)

\* The line is the JSON text of a request that passes validation.
IsValidRequest(line) == line.k = "json" /\ validate_request(line.val).valid

TypeOf(line) == line.val.f[<<"type">>].s

\* The string with its surrounding whitespace removed and case-folded:
\* capital letters become small ones and the Kelvin sign becomes "k".
CaseFold(s) ==
    LET t == Strip(s) IN
    [i \in 1..Len(t) |->
        IF \E j \in 1..Len(Capital) : Capital[j] = t[i]
        THEN Lower[CHOOSE j \in 1..Len(Capital) : Capital[j] = t[i]]
        ELSE IF t[i] = KelvinSign THEN "k" ELSE t[i]]

\* The type strings a request can carry.
TypeStrings == {ty.s : ty \in {v \in TypeValues : v.t = "str"}}

\* The line with the type of its request replaced by ty.
Retyped(line, ty) == [line EXCEPT !.val.f[<<"type">>] = JStr(ty)]

\* What the loop makes of the request of p_line (the response it sends or
\* the exception it raises) is what it makes of the same request under the
\* type string ty.
SameOutcome(ty) ==
    /\ IsValidRequest(Retyped(p_line, ty))
    /\ LoopStep(Retyped(p_line, ty), p_count, p_file) = p_out

\* C12 as stated: a valid request has the same outcome under any other type
\* string with the same trimmed, case-folded value.
C12_TypeUpToCaseFold ==
    (p_pc # "input" /\ IsValidRequest(p_line)) =>
        \A ty \in TypeStrings :
            CaseFold(ty) = CaseFold(TypeOf(p_line)) => SameOutcome(ty)

\* C12 amended: a valid request has the same outcome under any other type
\* string with the same value of strip().upper().
C12_TypeUpToStripUpper ==
    (p_pc # "input" /\ IsValidRequest(p_line)) =>
        \A ty \in TypeStrings :
            Upper(Strip(ty)) = Upper(Strip(TypeOf(p_line))) => SameOutcome(ty)

\* A request of type " Echo<tab>" has been answered as an ECHO, and
\* another type string with the same folded value exists.
C12_Witness ==
    /\ p_pc = "looped"
    /\ IsValidRequest(p_line)
    /\ TypeOf(p_line) = <<" ","E","c","h","o","\t">>
    /\ \E ty \in TypeStrings :
          ty # TypeOf(p_line) /\ Upper(Strip(ty)) = Upper(Strip(TypeOf(p_line)))
    /\ p_resp.status = "OK"
    /\ <<"echo">> \in DOMAIN p_resp.data.f

\* C13: whatever the state of the data file, load_local_data returns a
\* mapping and does not raise, the mapping is empty unless the file holds a
\* JSON object, and no FILE_QUERY ends in the handler of an exception.
C13_LoadReturnsMapping ==
    p_pc # "input" =>
        /\ ~load_local_data(p_file).raised
        /\ load_local_data(p_file).val.t = "obj"
        /\ ~(p_file.st = "json" /\ p_file.val.t = "obj") =>
              load_local_data(p_file).val = EmptyDict
        /\ IsFileQuery(p_line) => p_pc = "looped" /\ p_out.act = "send"

\* The field k of the object v is missing, not a string, or empty or
\* whitespace only.
NoText(v, k) ==
    \/ k \notin DOMAIN v.f
    \/ v.f[k].t # "str"
    \/ \A i \in 1..Len(v.f[k].s) : v.f[k].s[i] \in Whitespace

\* The message of the first check the decoded value v fails, in the order
\* object, type, request_id, payload; <<>> when it passes them all.
FirstFailure(v) ==
    IF v.t # "obj" THEN <<"Request must be a JSON object">>
    ELSE IF NoText(v, <<"type">>) THEN <<"Missing or invalid 'type' field">>
    ELSE IF NoText(v, <<"request_id">>)
    THEN <<"Missing or invalid 'request_id' field">>
    ELSE IF <<"payload">> \notin DOMAIN v.f \/ v.f[<<"payload">>].t # "obj"
    THEN <<"Missing or invalid 'payload' field (must be an object)">>
    ELSE <<>>

\* The request_id of the decoded value v if v is an object whose request_id
\* is a string, and the empty string otherwise.
OriginalId(v) ==
    IF v.t = "obj" /\ <<"request_id">> \in DOMAIN v.f
       /\ v.f[<<"request_id">>].t = "str"
    THEN v.f[<<"request_id">>].s
    ELSE <<>>

\* C14: a decoded line that fails validation is not dispatched; the loop
\* sends one BAD_REQUEST response whose message names the first failing
\* check and whose request_id is the original request_id if that was a
\* string and "" otherwise, and goes on to the next line.  A decoded line
\* that passes every check is dispatched.
C14_ValidationFailure ==
    (p_pc # "input" /\ p_line.k = "json") =>
        IF FirstFailure(p_line.val) # <<>>
        THEN /\ p_pc = "looped"
             /\ p_out.act = "send" /\ ~p_out.dispatched
             /\ p_resp.status = "ERROR"
             /\ ErrorCode(p_resp) = <<"BAD_REQUEST">>
             /\ p_resp.error.f[<<"message">>].s = FirstFailure(p_line.val)
             /\ p_resp.request_id = OriginalId(p_line.val)
             /\ p_resp.data = EmptyDict
        ELSE p_out.dispatched

\* A request without a usable type and with the request_id " r2" has been
\* answered BAD_REQUEST under that request_id.
C14_Witness ==
    /\ p_pc = "looped"
    /\ p_line.k = "json"
    /\ FirstFailure(p_line.val) = <<"Missing or invalid 'type' field">>
    /\ OriginalId(p_line.val) = <<" ","r","2">>
    /\ ErrorCode(p_resp) = <<"BAD_REQUEST">>
    /\ p_resp.request_id = <<" ","r","2">>

\* The line is the JSON text of an array, string, number, boolean or null.
IsNonObject(line) == line.k = "json" /\ line.val.t # "obj"

\* C15 as stated: a line whose JSON value is not an object is answered with
\* INVALID_JSON and an empty request_id, and the loop goes on.
C15_NonObjectInvalidJson ==
    (p_pc # "input" /\ IsNonObject(p_line)) =>
        /\ p_pc = "looped" /\ p_out.act = "send"
        /\ p_resp.status = "ERROR"
        /\ ErrorCode(p_resp) = <<"INVALID_JSON">>
        /\ p_resp.request_id = <<>>

\* C15 amended: a line whose JSON value is not an object is decoded, fails
\* the first check of the validation and is answered with BAD_REQUEST,
\* the message "Request must be a JSON object" and an empty request_id; it
\* is not dispatched and the loop goes on.
C15_NonObjectBadRequest ==
    (p_pc # "input" /\ IsNonObject(p_line)) =>
        /\ p_pc = "looped" /\ p_out.act = "send" /\ ~p_out.dispatched
        /\ p_resp.status = "ERROR"
        /\ ErrorCode(p_resp) = <<"BAD_REQUEST">>
        /\ p_resp.error.f[<<"message">>].s = <<"Request must be a JSON object">>
        /\ p_resp.request_id = <<>>

\* A line holding a JSON array has been answered.
C15_Witness ==
    /\ p_pc = "looped"
    /\ IsNonObject(p_line) /\ p_line.val.t = "arr"
    /\ p_out.act = "send"
    /\ ErrorCode(p_resp) = <<"BAD_REQUEST">>

\* C16: text that the peer left unterminated before it closed the stream
\* is read as the end of the stream: it is not decoded or dispatched, no
\* response is written for it, and the session has left its loop by the
\* end of the stream.
C16_FragmentIsEndOfStream ==
    \A c \in Conns :
        \A i \in 1..Len(log[c]) :
            ~log[c][i].line.nl =>
                /\ log[c][i].nresp = 0
                /\ pc[c] # "send"
                /\ Gone(c) /\ hist[c].exit = "eof"

KnownFolded ==
    {<<"e","c","h","o">>, <<"s","y","s","t","e","m","_","i","n","f","o">>,
     <<"f","i","l","e","_","q","u","e","r","y">>, <<"h","e","l","p">>}

KnownUpper ==
    {<<"E","C","H","O">>, <<"S","Y","S","T","E","M","_","I","N","F","O">>,
     <<"F","I","L","E","_","Q","U","E","R","Y">>, <<"H","E","L","P">>}

\* The response is UNKNOWN_TYPE for the request of p_line, naming the type
\* as the string named.
UnknownTypeResponse(named) ==
    /\ p_pc = "looped" /\ p_out.act = "send"
    /\ p_resp.status = "ERROR"
    /\ p_resp.request_id = p_line.val.f[<<"request_id">>].s
    /\ ErrorCode(p_resp) = <<"UNKNOWN_TYPE">>
    /\ p_resp.error.f[<<"message">>].s = <<"Unknown request type: ">> \o named

\* C17 as stated: a valid request whose trimmed, case-folded type is none
\* of the four types is answered UNKNOWN_TYPE with a message that carries
\* the type exactly as received.
C17_UnknownTypeAsReceived ==
    (p_pc # "input" /\ IsValidRequest(p_line)
        /\ CaseFold(TypeOf(p_line)) \notin KnownFolded) =>
        UnknownTypeResponse(TypeOf(p_line))

\* C17 amended: a valid request whose stripped, upper-cased type is none of
\* the four types is answered UNKNOWN_TYPE with a message that carries the
\* stripped, upper-cased type.
C17_UnknownTypeNormalised ==
    (p_pc # "input" /\ IsValidRequest(p_line)
        /\ Upper(Strip(TypeOf(p_line))) \notin KnownUpper) =>
        UnknownTypeResponse(Upper(Strip(TypeOf(p_line))))

\* A request of type " ping " has been answered with a message naming PING.
C17_Witness ==
    /\ p_pc = "looped"
    /\ IsValidRequest(p_line)
    /\ TypeOf(p_line) = <<" ","p","i","n","g"," ">>
    /\ ErrorCode(p_resp) = <<"UNKNOWN_TYPE">>
    /\ p_resp.error.f[<<"message">>].s =
          <<"Unknown request type: ", "P", "I", "N", "G">>

\* The lines of the log that have a response, in the order they were read.
AnsweredLines(lg) ==
    LET HasResponse(e) == e.nresp = 1 IN SelectSeq(lg, HasResponse)

\* r is a response the loop sends for the line, for some value of the
\* counter and some state of the data file.
IsResponseTo(r, line) ==
    \E n \in 0..MaxConns, file \in SessionFiles :
        LET o == Iteration(line, n, file) IN o.act = "send" /\ o.resp = r

\* C18: on each connection the responses on the outbound stream are, in
\* order, the responses to the lines that have one, in the order those
\* lines were read; a SERVER_ERROR response is the last one written.
C18_ResponsesInOrder ==
    \A c \in Conns :
        LET ans == AnsweredLines(log[c]) IN
        /\ Len(outbound[c]) = Len(ans) + hist[c].extra
        /\ \A k \in 1..Len(ans) :
              IF IsServerError(outbound[c][k])
              THEN k = Len(outbound[c]) /\ Gone(c)
              ELSE IsResponseTo(outbound[c][k], ans[k].line)

\* A peer has pipelined an unparseable line and then an ECHO before
\* either was read; both are answered, INVALID_JSON first.
C18_Witness ==
    \E c \in Conns :
        /\ Len(log[c]) >= 2
        /\ log[c][1].line.k = "garbage" /\ log[c][1].nresp = 1
        /\ IsEchoRequest(log[c][2].line) /\ log[c][2].nresp = 1
        /\ Len(outbound[c]) >= 2
        /\ ErrorCode(outbound[c][1]) = <<"INVALID_JSON">>
        /\ outbound[c][2].status = "OK"

\* The SYSTEM_INFO responses among those of q.
InfoResponses(q) ==
    {i \in 1..Len(q) : <<"active_clients">> \in DOMAIN q[i].data.f}

\* C19: every SYSTEM_INFO response, about to be sent or written, reports
\* active_clients >= 1, and the session whose handler read the counter had
\* incremented it and not yet decremented it.
C19_ReportsAtLeastOne ==
    \A c \in Conns :
        /\ snap[c].taken =>
              /\ Registered(c) /\ hist[c].incs = 1 /\ hist[c].decs = 0
              /\ snap[c].count >= 1
              /\ ReportedClients(pending[c]) >= 1
        /\ \A i \in InfoResponses(outbound[c]) :
              ReportedClients(outbound[c][i]) >= 1

\* A SYSTEM_INFO response reporting one client has been written after
\* another session incremented and decremented the counter.
C19_Witness ==
    \E c, d \in Conns :
        /\ c # d
        /\ pc[d] = "done" /\ hist[d].decs = 1
        /\ InfoResponses(outbound[c]) # {}
        /\ \A i \in InfoResponses(outbound[c]) :
              ReportedClients(outbound[c][i]) = 1

\* Every connection of the run has been accepted and every peer has ended
\* its connection, or had it closed by the server.
AllDisconnected ==
    /\ accepted = quota.conns
    /\ \A c \in Conns : peer[c] \in {"closed", "gone"}

\* C20: a session whose peer has ended the connection eventually closes its
\* socket and decrements the counter; once every connection has been
\* accepted and every peer has disconnected, active_clients eventually is 0
\* and remains 0.
C20_CounterReturnsToZero ==
    /\ \A c \in Conns :
          (peer[c] = "closed") ~> (pc[c] = "done" /\ ~sockOpen[c] /\ hist[c].decs = 1)
    /\ AllDisconnected ~> [](active_clients = 0)

\* Every session has ended, one of them at the end of its stream after its
\* response was written, and the counter is back at 0.
C20_Witness ==
    /\ AllDisconnected
    /\ \A c \in Conns : pc[c] = "done"
    /\ \E c \in Conns : hist[c].exit = "eof" /\ outbound[c] # <<>>
    /\ active_clients = 0
====
